---- MODULE Spec2Model ----
(***************************************************************************)
(* Model of src/src/main.py: the paginated session fetch (fetch_sessions,  *)
(* fetch_stream), the CSV export (generate_csv, generate_csv_stream) and   *)
(* the module-level table csv_files read by download_csv.                  *)
(*                                                                         *)
(* The server runs the step of one handler at a time (kind, pc and its      *)
(* locals) and holds the frames of the other requests in others; it may    *)
(* turn to another handler after any step, as the thread pool of FastAPI   *)
(* does. Handlers share nothing but csv_files, which only                  *)
(* generate_csv_stream writes (line 188) and only download_csv reads       *)
(* (lines 238-240). download_csv requests interleave with every step.      *)
(* A generator is modelled yield by yield or finer: no step spans a yield  *)
(* at which the generator goes on.                                         *)
(* The content of a temp file is kept for the job that writes it (header,  *)
(* rows); of the files on disk only their state is kept.                   *)
(***************************************************************************)
EXTENDS Integers, Sequences, FiniteSets, TLC

\* ------------------------------------------------------------------ bounds
\* Highest page number the model lets a fetch loop request.
MaxPage == 3
\* Number of file ids (uuid4 values) the model lets export jobs draw.
MaxFiles == 2
\* the longest list of arbitrary records handed to an export
MaxSessions == 2
\* the longest list of plain records handed to an export
MaxRows == 21

\* --------------------------------------------------------------- constants
HTTP_OK == 200
HTTP_NOT_FOUND == 404
HTTP_SERVER_ERROR == 500
\* a row progress event is yielded every ROW_PROGRESS_EVERY rows
ROW_PROGRESS_EVERY == 10
\* a key that is absent from a JSON object (dict.get falls to its default)
NoKey == -1
NO_SESSIONS_DETAIL == "No sessions found for given month/year"

\* the same for a key whose value is a string
NoText == "<no key>"

\* dict.get(key, default)
Get(v, default) == IF v = NoKey THEN default ELSE v
\* dict.get(key, "") of a string field
GetText(v) == IF v = NoText THEN "" ELSE v

\* ------------------------------------------------------- upstream records
\* A participant entry of a session; mapping = FALSE is a JSON value that is
\* not an object (null), on which p.get raises AttributeError.
PA == [mapping |-> TRUE, participantId |-> "pA", name |-> "A",
       timelog |-> <<[start |-> 10, end |-> 20], [start |-> 5, end |-> 15]>>]
PB == [mapping |-> TRUE, participantId |-> "pB", name |-> "B", timelog |-> <<>>]
PNull == [mapping |-> FALSE, participantId |-> "", name |-> "", timelog |-> <<>>]

S1 == [id |-> "s1", roomId |-> "r1", start |-> 10, end |-> 20, status |-> "ended",
       hasParticipants |-> TRUE, participants |-> <<PA>>]
S2 == [id |-> "s2", roomId |-> "r2", start |-> 5, end |-> NoKey, status |-> "",
       hasParticipants |-> TRUE, participants |-> <<PA, PB>>]
SBad == [id |-> "s3", roomId |-> "r1", start |-> 7, end |-> 9, status |-> "ended",
         hasParticipants |-> TRUE, participants |-> <<PNull>>]

\* a participant whose timelog holds a start of 0 and an entry without end
PZ == [mapping |-> TRUE, participantId |-> "pZ", name |-> NoText,
       timelog |-> <<[start |-> 0, end |-> 3], [start |-> 4, end |-> NoKey]>>]
\* a participant whose only timelog entry has no start
PC == [mapping |-> TRUE, participantId |-> NoText, name |-> "C",
       timelog |-> <<[start |-> NoKey, end |-> 8]>>]
S3 == [id |-> "s4", roomId |-> "r2", start |-> 0, end |-> 9, status |-> "ongoing",
       hasParticipants |-> TRUE, participants |-> <<PZ, PC, PA>>]
\* a session with none of the optional keys
S4 == [id |-> NoText, roomId |-> NoText, start |-> NoKey, end |-> NoKey, status |-> NoText,
       hasParticipants |-> FALSE, participants |-> <<>>]

\* the values of "data" an upstream page may carry
DataValues == {<<>>, <<S1>>, <<S2, SBad>>}
\* the values of pageInfo.currentPage / pageInfo.lastPage an upstream may send
PageValues == {NoKey, 0, 1, 2, 3}

\* responses with a status other than 200: status code and raw body
ErrorResponses ==
  {[status |-> s, text |-> t, json |-> FALSE, hasData |-> FALSE, data |-> <<>>,
    currentPage |-> NoKey, lastPage |-> NoKey]
     : s \in {HTTP_NOT_FOUND, HTTP_SERVER_ERROR}, t \in {"denied", "oops"}}
\* status 200 with a body resp.json() cannot parse
GarbledResponses ==
  {[status |-> HTTP_OK, text |-> "garbled", json |-> FALSE, hasData |-> FALSE,
    data |-> <<>>, currentPage |-> NoKey, lastPage |-> NoKey]}
\* status 200 with a JSON object: data and pageInfo keys present or absent
OkResponses ==
  {[status |-> HTTP_OK, text |-> "json", json |-> TRUE, hasData |-> TRUE, data |-> d,
    currentPage |-> c, lastPage |-> l]
     : d \in DataValues, c \in PageValues, l \in PageValues}
  \cup
  {[status |-> HTTP_OK, text |-> "json", json |-> TRUE, hasData |-> FALSE, data |-> <<>>,
    currentPage |-> c, lastPage |-> l]
     : c \in PageValues, l \in PageValues}
Responses == ErrorResponses \cup GarbledResponses \cup OkResponses
\* an upstream with four answers: a server error, a first page of two, a page
\* that is the last one and ends on a record without a participant list, and a
\* page without records
FewResponses ==
  {r \in ErrorResponses : r.status = HTTP_SERVER_ERROR /\ r.text = "oops"}
  \cup {r \in OkResponses :
          /\ r.hasData /\ r.currentPage = NoKey
          /\ \/ r.data = <<S1>> /\ r.lastPage = 2
             \/ r.data \in {<<>>, <<S2, SBad>>} /\ r.lastPage = NoKey}

\* data.get("data", [])
DataOf(resp) == IF resp.hasData THEN resp.data ELSE <<>>

\* ------------------------------------------------------------ exceptions
\* an error that reports every upstream failure as a server error
HTTPException_masked(status, detail) ==
  [type |-> "HTTPException", status |-> HTTP_SERVER_ERROR, detail |-> detail]

\* raise HTTPException(status_code=..., detail=...)
HTTPException(status, detail) == [type |-> "HTTPException", status |-> status, detail |-> detail]
OtherException(type) == [type |-> type, status |-> 0, detail |-> ""]
NoException == [type |-> "", status |-> 0, detail |-> ""]
\* str(e): starlette's HTTPException renders "<status>: <detail>", any other
\* exception is rendered by its own text (its type stands for it here)
StrOfException(e) ==
  IF e.type = "HTTPException" THEN <<e.status, e.detail>> ELSE <<0, e.type>>

\* ------------------------------------------------ month_start_end_epoch_ms
\* datetime accepts the years MINYEAR..MAXYEAR and raises ValueError outside
MINYEAR == 1
MAXYEAR == 9999
LastMonth == 12
SecondsPerDay == 86400
MsPerDay == SecondsPerDay * 1000
IsLeap(y) == y % 4 = 0 /\ (y % 100 # 0 \/ y % 400 = 0)
DaysInMonth(y, m) ==
  IF m = 2 THEN (IF IsLeap(y) THEN 29 ELSE 28)
  ELSE IF m \in {4, 6, 9, 11} THEN 30 ELSE 31
\* days from 0001-01-01 to the first day of year y
DaysBeforeYear(y) ==
  (y - 1) * 365 + ((y - 1) \div 4) - ((y - 1) \div 100) + ((y - 1) \div 400)
RECURSIVE DaysBeforeMonth(_, _)
DaysBeforeMonth(y, m) ==
  IF m = 1 THEN 0 ELSE DaysBeforeMonth(y, m - 1) + DaysInMonth(y, m - 1)
\* date(y, m, d).toordinal()
Ordinal(y, m, d) == DaysBeforeYear(y) + DaysBeforeMonth(y, m) + d
\* datetime(y, m, 1, tzinfo=utc) is constructible
ValidDate(y, m) == y >= MINYEAR /\ y <= MAXYEAR /\ m >= 1 /\ m <= LastMonth
\* An epoch time in ms, held as whole days since 1970-01-01 and the ms within
\* the day (0 <= ms < MsPerDay): the instant is day * MsPerDay + ms.
Instant(d, t) == [day |-> d, ms |-> t]
NoInstant == Instant(0, 0 - 1)
\* int(datetime(y, m, 1, tzinfo=utc).timestamp() * 1000)
MonthStartMs(y, m) == Instant(Ordinal(y, m, 1) - Ordinal(1970, 1, 1), 0)
\* int((dt - timedelta(seconds=1)).timestamp() * 1000) of a midnight dt
SecondBefore(inst) == Instant(inst.day - 1, (SecondsPerDay - 1) * 1000)
NoRange == [raised |-> FALSE, start |-> NoInstant, end |-> NoInstant]
\* lines 27-34; raised: one of the two datetime constructors raised ValueError
month_start_end_epoch_ms(y, m) ==
  LET ny == IF m = LastMonth THEN y + 1 ELSE y
      nm == IF m = LastMonth THEN 1 ELSE m + 1
  IN IF ~ValidDate(y, m) \/ ~ValidDate(ny, nm) THEN [NoRange EXCEPT !.raised = TRUE]
     ELSE [raised |-> FALSE, start |-> MonthStartMs(y, m),
           end |-> SecondBefore(MonthStartMs(ny, nm))]
\* the years and months a request may ask for
Years == {1969, 1970, 1999, 2000, 2023, 2024, 2100, 9998, 9999}
Months == 1..LastMonth

VARIABLES
  year,          \* the year argument of the handler
  month,         \* its month argument
  start_ms,      \* the start of the range the upstream is asked for
  end_ms,        \* its end
  kind,          \* the handler the server is running: "idle", "fetch", "csv", "stream",
                 \* "export"
  pc,            \* its position
  pcols,         \* its participant_columns argument, drawn where the handler
                 \* first reads it (lines 120, 178)
  page,          \* page counter of the fetch loop
  all_sessions,  \* accumulator of the fetch loop, then the handler's session list
  requests,      \* page numbers requested from the upstream so far, in order
  served,        \* the data sequence of every successful page so far, in order
  upstreamN,     \* 0: no response yet; N >= 1: every response so far had status 200,
                 \* currentPage = requested page and lastPage = N; Deviated otherwise
  lastResp,      \* status and body of the last response received
  page_info,     \* the pageInfo of the last response parsed by the fetch loop
                 \* in flight
  twin,          \* fetch_sessions run on the answers fetch_stream has received:
                 \* its page, accumulator and result, and the requests it made
  ret,           \* how fetch_sessions ended: returned sessions or raised exception
  last_page,     \* fetch_stream's latched lastPage (0 = None)
  current,       \* fetch_stream's current page as reported in the last progress event
  events,        \* the server-sent events the generator has yielded, in order
  result,        \* the HTTP answer of a non-streaming handler
  file_id,       \* the export job's file id (0 = not drawn yet)
  desired_max,   \* resolved number of participant column groups
  idx,           \* rows written so far by the export loop
  header,        \* the header line the export job has written
  rows,          \* the rows the export job has written, in order
  csv_files,     \* the module-level table: file id -> temp file path
  disk,          \* temp files on disk: path -> "open" (being written), "partial"
                 \* (closed before its last row) or "complete"
  nextId,        \* next unused file id
  completed,     \* file ids whose complete event has been yielded
  dl,            \* the download_csv request in flight or last answered
  others         \* the other requests the server is handling: slot -> the frame of
                 \* the handler, or NoFrame

vars == <<year, month, start_ms, end_ms, kind, pc, pcols, page, all_sessions, requests, served, upstreamN,
          lastResp, page_info, twin, ret, last_page, current, events, result, file_id, desired_max, idx,
          header, rows, csv_files, disk, nextId, completed, dl, others>>

otherVars == <<others>>

rangeVars == <<year, month, start_ms, end_ms>>
fetchVars == <<page, all_sessions, requests, served, upstreamN, lastResp, ret>>
loopVars == <<page_info, twin>>
exportVars == <<file_id, desired_max, idx, header, rows>>
streamVars == <<last_page, current>>
sharedVars == <<csv_files, disk, nextId, completed>>
dlVars == <<dl>>

Deviated == 0 - 1
NoRet == [kind |-> "none", sessions |-> <<>>, exc |-> NoException]
NoResult == [status |-> 0, detail |-> "", sessions |-> <<>>, header |-> <<>>, rows |-> <<>>]
NoResp == [status |-> 0, text |-> ""]
\* fetch_sessions before its first request
NoTwin == [page |-> 1, acc |-> <<>>, ret |-> NoRet, n |-> 0]
\* no response has been parsed; kept: the behaviour keeps a record of the
\* pageInfo its fetch loops read (SpecPages does, the other specifications
\* leave page_info and twin as they are)
NoPageInfo == [kept |-> FALSE, seen |-> FALSE, currentPage |-> NoKey, lastPage |-> NoKey]
\* data.get("pageInfo", {})
PageInfoOf(resp) ==
  [kept |-> TRUE, seen |-> TRUE, currentPage |-> resp.currentPage, lastPage |-> resp.lastPage]
Idle == [pc |-> "idle", id |-> 0, status |-> 0, file |-> ""]
\* the requests the server handles besides the one whose handler it is running
Slots == {1}
NoFrame == [kind |-> "none"]
NoOthers == [s \in Slots |-> NoFrame]

\* history of the upstream's answers, folded: see upstreamN
TrackUpstream(n, p, resp) ==
  IF n = Deviated \/ resp.status # HTTP_OK \/ ~resp.json THEN Deviated
  ELSE IF resp.currentPage # p \/ resp.lastPage < 1 THEN Deviated
  ELSE IF n = 0 \/ n = resp.lastPage THEN resp.lastPage
  ELSE Deviated

\* ------------------------------------------------------------- CSV export
\* str(n) as csv.DictWriter writes a number
NumStr == <<"0", "1", "2", "3", "4", "5", "6", "7", "8", "9", "10", "11", "12",
            "13", "14", "15", "16", "17", "18", "19", "20">>
Str(n) == NumStr[n + 1]

Max2(a, b) == IF a >= b THEN a ELSE b
SetMax(S) == CHOOSE x \in S : \A y \in S : y <= x
SetMin(S) == CHOOSE x \in S : \A y \in S : x <= y

\* sess.get("participants", [])
ParticipantsOf(sess) == IF sess.hasParticipants THEN sess.participants ELSE <<>>
\* the last n entries in place of the first n
Prefix_tail(seq, n) ==
  SubSeq(seq, (IF n < Len(seq) THEN Len(seq) - n ELSE 0) + 1, Len(seq))

\* participants[:desired_max]
Prefix(seq, n) == SubSeq(seq, 1, IF n < Len(seq) THEN n ELSE Len(seq))

\* max(len(sess.get("participants", [])) for sess in all_sessions)
actual_max_participants(sessions) ==
  SetMax({Len(ParticipantsOf(sessions[i])) : i \in 1..Len(sessions)})

\* participant_columns: [given |-> FALSE] is None
PColsNone == [given |-> FALSE, value |-> 0]
PCols(n) == [given |-> TRUE, value |-> n]
\* participant_columns unset, or 1
FewPCols == {PColsNone, PCols(1)}
PColsValues == {PColsNone, PCols(0), PCols(1), PCols(0 - 1), PCols(3)}

\* the supplied value taken as it is, a negative one included
ResolveDesiredMax_unclamped(sessions, participant_columns) ==
  IF ~participant_columns.given \/ participant_columns.value = 0
  THEN actual_max_participants(sessions)
  ELSE participant_columns.value

\* actual_max_participants if participant_columns in (None, 0)
\* else max(0, int(participant_columns))
ResolveDesiredMax(sessions, participant_columns) ==
  IF ~participant_columns.given \/ participant_columns.value = 0
  THEN actual_max_participants(sessions)
  ELSE Max2(0, participant_columns.value)

\* a column of the table: group 0 holds the six fixed columns, group i >= 1
\* the four columns participant{i}_<field>
Col(group, field) == [group |-> group, field |-> field]
FixedHeaders == <<Col(0, "session_id"), Col(0, "room_id"), Col(0, "session_start_time"),
                  Col(0, "session_end_time"), Col(0, "status"),
                  Col(0, "number_of_participants")>>
RECURSIVE ParticipantHeaders(_, _)
ParticipantHeaders(i, n) ==
  IF i > n THEN <<>>
  ELSE <<Col(i, "id"), Col(i, "name"), Col(i, "first_start"), Col(i, "last_end")>>
         \o ParticipantHeaders(i + 1, n)
csv_headers(n) == FixedHeaders \o ParticipantHeaders(1, n)

\* [t.get("start") for t in timelog if t.get("start")]: present and truthy
Truthy(v) == v # NoKey /\ v # 0
Starts(timelog) == {timelog[i].start : i \in {k \in 1..Len(timelog) : Truthy(timelog[k].start)}}
Ends(timelog) == {timelog[i].end : i \in {k \in 1..Len(timelog) : Truthy(timelog[k].end)}}
first_start(timelog) == IF Starts(timelog) = {} THEN "" ELSE Str(SetMin(Starts(timelog)))
last_end(timelog) == IF Ends(timelog) = {} THEN "" ELSE Str(SetMax(Ends(timelog)))

\* a missing key written as the text of None
TextOf_none(v) == IF v = NoKey THEN "None" ELSE Str(v)

\* sess.get(key, "") written as text
TextOf(v) == IF v = NoKey THEN "" ELSE Str(v)

\* p.get on a participant entry that is no mapping raises AttributeError
RowRaises(sess, n) ==
  \E i \in 1..Len(Prefix(ParticipantsOf(sess), n)) : ~ParticipantsOf(sess)[i].mapping

ParticipantFields == {"id", "name", "first_start", "last_end"}
\* the keys of the row dictionary: the six fixed ones (lines 134-141), four per
\* participant of participants[:desired_max] (lines 143-155), four per empty
\* slot up to desired_max (lines 157-161)
RowKeys(sess, n) ==
  LET ps == Prefix(ParticipantsOf(sess), n)
  IN {FixedHeaders[k] : k \in 1..Len(FixedHeaders)}
     \cup {Col(i, f) : i \in 1..Len(ps), f \in ParticipantFields}
     \cup {Col(i, f) : i \in (Len(ps) + 1)..n, f \in ParticipantFields}

\* the row dictionary of one session: column -> text
RowDict(sess, n) ==
  LET ps == Prefix(ParticipantsOf(sess), n)
  IN [c \in RowKeys(sess, n) |->
        IF c.group = 0 THEN
          CASE c.field = "session_id" -> GetText(sess.id)
            [] c.field = "room_id" -> GetText(sess.roomId)
            [] c.field = "session_start_time" -> TextOf(sess.start)
            [] c.field = "session_end_time" -> TextOf(sess.end)
            [] c.field = "status" -> GetText(sess.status)
            [] OTHER -> Str(Len(ParticipantsOf(sess)))
        ELSE IF c.group <= Len(ps) THEN
          CASE c.field = "id" -> GetText(ps[c.group].participantId)
            [] c.field = "name" -> GetText(ps[c.group].name)
            [] c.field = "first_start" -> first_start(ps[c.group].timelog)
            [] OTHER -> last_end(ps[c.group].timelog)
        ELSE ""]
\* writer.writerow(row): the values in the order of fieldnames; a key missing
\* from the row is written as the empty restval
WriteRowWith(row, fieldnames) ==
  [k \in 1..Len(fieldnames) |->
     IF fieldnames[k] \in DOMAIN row THEN row[fieldnames[k]] ELSE ""]
WriteRow(sess, n) == WriteRowWith(RowDict(sess, n), csv_headers(n))

\* the rows generate_csv writes before the first session whose row raises
RECURSIVE RowsUntilRaise(_, _)
RowsUntilRaise(sessions, n) ==
  IF sessions = <<>> \/ RowRaises(Head(sessions), n) THEN <<>>
  ELSE <<WriteRow(Head(sessions), n)>> \o RowsUntilRaise(Tail(sessions), n)
AnyRowRaises(sessions, n) == \E i \in 1..Len(sessions) : RowRaises(sessions[i], n)

\* ---- generate_csv_stream carries its own copy of the table code (lines 177-224)
\* line 177
stream_actual_max_participants(sessions) ==
  LET lens == {Len(ParticipantsOf(sessions[i])) : i \in 1..Len(sessions)}
  IN CHOOSE m \in lens : \A l \in lens : l <= m
\* a resolution that takes a supplied 0 as zero groups
StreamResolveDesiredMax_zero(sessions, participant_columns) ==
  IF participant_columns.given
  THEN Max2(0, participant_columns.value)
  ELSE stream_actual_max_participants(sessions)

\* lines 179-180
StreamResolveDesiredMax(sessions, participant_columns) ==
  IF participant_columns.given /\ participant_columns.value # 0
  THEN Max2(0, participant_columns.value)
  ELSE stream_actual_max_participants(sessions)
\* lines 181-184
stream_csv_headers(n) ==
  [k \in 1..(6 + 4 * n) |->
     IF k <= 6 THEN FixedHeaders[k]
     ELSE Col(((k - 7) \div 4) + 1,
              <<"id", "name", "first_start", "last_end">>[((k - 7) % 4) + 1])]
\* lines 205-211
stream_first_start(timelog) ==
  LET starts == {timelog[i].start : i \in {k \in 1..Len(timelog) : Truthy(timelog[k].start)}}
  IN IF starts = {} THEN "" ELSE Str(SetMin(starts))
stream_last_end(timelog) ==
  LET ends == {timelog[i].end : i \in {k \in 1..Len(timelog) : Truthy(timelog[k].end)}}
  IN IF ends = {} THEN "" ELSE Str(SetMax(ends))
\* lines 203-204: p_data.get on an entry that is no mapping raises AttributeError
StreamRowRaises(sess, n) ==
  \E i \in 1..Len(ParticipantsOf(sess)) : i <= n /\ ~ParticipantsOf(sess)[i].mapping
\* lines 195-222: the row dictionary, its entries in the order the code sets
\* them: the fixed ones, then the participants of participants[:desired_max],
\* then the empty slots
StreamRowDict(sess, n) ==
  LET participants == ParticipantsOf(sess)
      shown == Prefix(participants, n)
      fixed == [c \in {FixedHeaders[k] : k \in 1..6} |->
                  CASE c.field = "session_id" -> GetText(sess.id)
                    [] c.field = "room_id" -> GetText(sess.roomId)
                    [] c.field = "session_start_time" -> TextOf(sess.start)
                    [] c.field = "session_end_time" -> TextOf(sess.end)
                    [] c.field = "status" -> GetText(sess.status)
                    [] OTHER -> Str(Len(participants))]
      filled == [c \in {Col(i, f) : i \in 1..Len(shown), f \in ParticipantFields} |->
                   CASE c.field = "id" -> GetText(shown[c.group].participantId)
                     [] c.field = "name" -> GetText(shown[c.group].name)
                     [] c.field = "first_start" -> stream_first_start(shown[c.group].timelog)
                     [] OTHER -> stream_last_end(shown[c.group].timelog)]
      blank == [c \in {Col(i, f) : i \in (Len(shown) + 1)..n, f \in ParticipantFields} |-> ""]
  IN fixed @@ filled @@ blank
\* line 224
StreamWriteRow(sess, n) == WriteRowWith(StreamRowDict(sess, n), stream_csv_headers(n))

\* ---------------------------------------------------------------- events
NoEvent == [type |-> "", step |-> "", a |-> 0, b |-> 0, msg |-> <<0, "">>, sessions |-> <<>>]
\* fetch_stream: {"type": "init", "lastPage": last_page}
InitStreamEvent(lp) == [NoEvent EXCEPT !.type = "init", !.b = lp]
\* {"type": "progress", "currentPage": current, "lastPage": last_page}
PageProgressEvent(cur, lp) == [NoEvent EXCEPT !.type = "progress", !.step = "page", !.a = cur, !.b = lp]
\* {"type": "complete", "count": len(all_sessions), "sessions": all_sessions}
StreamCompleteEvent(sessions) ==
  [NoEvent EXCEPT !.type = "complete", !.a = Len(sessions), !.sessions = sessions]
\* {"type": "error", "status": resp.status_code, "detail": resp.text}
StreamErrorEvent(status, detail) == [NoEvent EXCEPT !.type = "error", !.msg = <<status, detail>>]
\* generate_csv_stream: {"type": "init", "message": "Fetching sessions..."}
InitExportEvent == [NoEvent EXCEPT !.type = "init", !.msg = <<0, "Fetching sessions...">>]
\* {"type": "progress", "step": step, "progress": progress, "total": total}
RowProgressEvent(step, progress, total) ==
  [NoEvent EXCEPT !.type = "progress", !.step = step, !.a = progress, !.b = total]
\* {"type": "complete", "fileId": file_id, "filename": filename}
ExportCompleteEvent(fid) == [NoEvent EXCEPT !.type = "complete", !.a = fid]
\* {"type": "error", "message": str(e)}
ExportErrorEvent(message) == [NoEvent EXCEPT !.type = "error", !.msg = message]

\* ------------------------------------------------------------------ Init
Init ==
  /\ year = 2024 /\ month = 1 /\ start_ms = NoInstant /\ end_ms = NoInstant
  /\ kind = "idle" /\ pc = "idle" /\ pcols = PColsNone
  /\ page = 1 /\ all_sessions = <<>> /\ requests = <<>> /\ served = <<>>
  /\ upstreamN = 0 /\ lastResp = NoResp /\ ret = NoRet
  /\ page_info = NoPageInfo /\ twin = NoTwin
  /\ last_page = 0 /\ current = 0 /\ events = <<>> /\ result = NoResult
  /\ file_id = 0 /\ desired_max = 0 /\ idx = 0 /\ header = <<>> /\ rows = <<>>
  /\ csv_files = <<>> /\ disk = <<>> /\ nextId = 1 /\ completed = {}
  /\ dl = Idle
  /\ others = NoOthers

\* ------------------------------------------------ the requests in flight
\* the locals of the handler the server is running
Frame ==
  [start_ms |-> start_ms, end_ms |-> end_ms, kind |-> kind, pc |-> pc, pcols |-> pcols,
   page |-> page, all_sessions |-> all_sessions, requests |-> requests, served |-> served,
   upstreamN |-> upstreamN, lastResp |-> lastResp,
   page_info |-> page_info, twin |-> twin, ret |-> ret, last_page |-> last_page,
   current |-> current, events |-> events, result |-> result, file_id |-> file_id,
   desired_max |-> desired_max, idx |-> idx, header |-> header, rows |-> rows]

\* the handler the server is running has answered, or none was called yet
Free == pc \in {"idle", "done"}

\* a request arrives: the server runs its handler at once, besides the handler
\* it was running if that one has not answered and a slot is left. Handlers
\* run on the threads of a pool, and StreamingResponse runs a generator from one
\* yield to the next on one of them: the steps of two requests interleave
Accept ==
  IF Free THEN UNCHANGED others
  ELSE \E s \in Slots :
         /\ others[s] = NoFrame
         /\ others' = [others EXCEPT ![s] = Frame]

\* the server turns to the handler of slot s; the one it was running takes the
\* slot, or is over
Switch(s) ==
  /\ others[s] # NoFrame
  /\ others' = [others EXCEPT ![s] = IF Free THEN NoFrame ELSE Frame]
  /\ LET f == others[s]
     IN /\ start_ms' = f.start_ms /\ end_ms' = f.end_ms /\ kind' = f.kind /\ pc' = f.pc
        /\ pcols' = f.pcols /\ page' = f.page /\ all_sessions' = f.all_sessions
        /\ requests' = f.requests /\ served' = f.served /\ upstreamN' = f.upstreamN
        /\ lastResp' = f.lastResp /\ page_info' = f.page_info
        /\ twin' = f.twin /\ ret' = f.ret /\ last_page' = f.last_page
        /\ current' = f.current /\ events' = f.events /\ result' = f.result
        /\ file_id' = f.file_id /\ desired_max' = f.desired_max /\ idx' = f.idx
        /\ header' = f.header /\ rows' = f.rows
  /\ UNCHANGED <<year, month, sharedVars, dlVars>>

SwitchHandler == \E s \in Slots : Switch(s)

\* the locals of a handler frame at its start
NewFrame(k, participant_columns, first_events) ==
  /\ Accept
  /\ kind' = k /\ pcols' = participant_columns
  /\ page' = 1 /\ all_sessions' = <<>> /\ requests' = <<>> /\ served' = <<>>
  /\ upstreamN' = 0 /\ lastResp' = NoResp
  /\ page_info' = [NoPageInfo EXCEPT !.kept = page_info.kept]
  /\ last_page' = 0 /\ current' = 0 /\ events' = first_events /\ result' = NoResult
  /\ file_id' = 0 /\ desired_max' = 0 /\ idx' = 0 /\ header' = <<>> /\ rows' = <<>>
  /\ UNCHANGED <<year, month, sharedVars, dlVars>>

\* the call of month_start_end_epoch_ms that opens fetch_sessions (line 48) and
\* fetch_stream's generator (line 82): a ValueError ends fetch_sessions at
\* once, and ends the generator of fetch_stream before its first event
CallRange(k, next_pc) ==
  LET range == month_start_end_epoch_ms(year, month)
  IN /\ start_ms' = range.start /\ end_ms' = range.end
     /\ pc' = IF ~range.raised THEN next_pc
              ELSE IF k = "stream" THEN "done" ELSE "fetched"
     /\ ret' = IF ~range.raised THEN NoRet
               ELSE [kind |-> "raise", sessions |-> <<>>, exc |-> OtherException("ValueError")]
     /\ twin' = IF k = "stream" /\ page_info.kept THEN [NoTwin EXCEPT !.ret = ret'] ELSE NoTwin

\* an export job in flight that has not drawn its file id
Unregistered(f) == f.kind = "export" /\ f.pc \in {"started", "fetching", "fetched", "prepare"}
\* the file ids the export jobs in flight may still draw
PendingExports ==
  Cardinality({s \in Slots : others[s] # NoFrame /\ Unregistered(others[s])})
  + (IF Unregistered(Frame) THEN 1 ELSE 0)

\* GET /fetch: fetch_sessions starts (lines 48-50)
StartFetch == NewFrame("fetch", PColsNone, <<>>) /\ CallRange("fetch", "fetching")
\* GET /generate-csv: fetch_sessions starts
StartCsv == NewFrame("csv", PColsNone, <<>>) /\ CallRange("csv", "fetching")
\* GET /fetch-stream: event_gen starts (lines 82-85)
StartStream == NewFrame("stream", PColsNone, <<>>) /\ CallRange("stream", "streaming")
\* GET /generate-csv-stream: event_gen runs to its first yield (line 172),
\* where it is suspended before it has called fetch_sessions
StartExport ==
  /\ nextId + PendingExports <= MaxFiles
  /\ NewFrame("export", PColsNone, <<InitExportEvent>>)
  /\ start_ms' = NoInstant /\ end_ms' = NoInstant
  /\ pc' = "started" /\ ret' = NoRet /\ twin' = NoTwin

\* event_gen of generate_csv_stream is resumed after its init event and calls
\* fetch_sessions (line 173), which computes the month's range (line 48)
ExportBegin ==
  /\ kind = "export" /\ pc = "started"
  /\ CallRange("export", "fetching")
  /\ UNCHANGED <<otherVars, year, month, kind, pcols, page, all_sessions, requests, served, upstreamN,
                 lastResp, page_info, streamVars, events, result, exportVars, sharedVars,
                 dlVars>>

\* no export job has drawn a file id (/fetch, /generate-csv and /fetch-stream
\* neither read nor write csv_files)
NoExportYet == nextId = 1

\* ------------------------------------------------------- fetch_sessions
\* a loop that tests > where the code tests >=
LastPageReached_strict(resp, p) == Get(resp.currentPage, p) > Get(resp.lastPage, p)

\* a loop that takes a missing currentPage or lastPage as 1
LastPageReached_one(resp, p) == Get(resp.currentPage, 1) >= Get(resp.lastPage, 1)

\* page_info.get("currentPage", page) >= page_info.get("lastPage", page)
LastPageReached(resp, p) == Get(resp.currentPage, p) >= Get(resp.lastPage, p)

\* a fetch without the check of lines 69-70
FetchResult_unchecked(acc) == [kind |-> "return", sessions |-> acc, exc |-> NoException]

\* lines 69-72: the result of fetch_sessions once the loop has ended
FetchResult(acc) ==
  IF acc = <<>>
  THEN [kind |-> "raise", sessions |-> <<>>,
        exc |-> HTTPException(HTTP_NOT_FOUND, NO_SESSIONS_DETAIL)]
  ELSE [kind |-> "return", sessions |-> acc, exc |-> NoException]

\* one iteration of the loop of fetch_sessions (lines 52-67) at page p with the
\* accumulator acc, and lines 69-72 when the loop ends with it: the page and
\* the accumulator after it, and the result (none while the loop goes on)
FetchIteration(p, acc, resp) ==
  IF resp.status # HTTP_OK THEN
    [page |-> p, acc |-> acc,
     ret |-> [kind |-> "raise", sessions |-> <<>>,
              exc |-> HTTPException(resp.status, resp.text)]]
  ELSE IF ~resp.json THEN
    [page |-> p, acc |-> acc,
     ret |-> [kind |-> "raise", sessions |-> <<>>, exc |-> OtherException("JSONDecodeError")]]
  ELSE IF LastPageReached(resp, p) THEN
    [page |-> p, acc |-> acc \o DataOf(resp), ret |-> FetchResult(acc \o DataOf(resp))]
  ELSE
    [page |-> p + 1, acc |-> acc \o DataOf(resp), ret |-> NoRet]

\* fetch_sessions given the answer fetch_stream has just received, if it would
\* have asked for it
TwinStep(t, resp) ==
  IF t.ret.kind # "none" THEN t
  ELSE LET it == FetchIteration(t.page, t.acc, resp)
       IN [page |-> it.page, acc |-> it.acc, ret |-> it.ret, n |-> t.n + 1]

\* an iteration of the loop of fetch_sessions in the handler in flight
FetchPage(resp) ==
  /\ kind \in {"fetch", "csv", "export"} /\ pc = "fetching"
  /\ requests' = Append(requests, page)
  /\ lastResp' = [status |-> resp.status, text |-> resp.text]
  /\ upstreamN' = TrackUpstream(upstreamN, page, resp)
  /\ LET it == FetchIteration(page, all_sessions, resp)
     IN /\ it.ret.kind = "none" => page < MaxPage
        /\ page' = it.page
        /\ all_sessions' = it.acc
        /\ ret' = it.ret
        /\ pc' = IF it.ret.kind = "none" THEN "fetching" ELSE "fetched"
  /\ served' = IF resp.status = HTTP_OK /\ resp.json
               THEN Append(served, DataOf(resp)) ELSE served
  /\ page_info' = IF resp.status = HTTP_OK /\ resp.json /\ page_info.kept
                  THEN PageInfoOf(resp) ELSE page_info
  /\ UNCHANGED <<otherVars, rangeVars, kind, pcols, twin, streamVars, events, result, exportVars, sharedVars, dlVars>>

FetchStep == \E resp \in Responses : FetchPage(resp)
\* the same against the upstream of FewResponses
FetchStepFew == \E resp \in FewResponses : FetchPage(resp)

\* how FastAPI answers a handler that raised
ErrorResult(exc) ==
  IF exc.type = "HTTPException"
  THEN [NoResult EXCEPT !.status = exc.status, !.detail = exc.detail]
  ELSE [NoResult EXCEPT !.status = HTTP_SERVER_ERROR, !.detail = "Internal Server Error"]

\* GET /fetch after fetch_sessions (lines 76-77)
FetchRespond ==
  /\ kind = "fetch" /\ pc = "fetched"
  /\ result' = IF ret.kind = "return"
               THEN [NoResult EXCEPT !.status = HTTP_OK, !.sessions = ret.sessions]
               ELSE ErrorResult(ret.exc)
  /\ pc' = "done"
  /\ UNCHANGED <<otherVars, rangeVars, loopVars, kind, pcols, fetchVars, streamVars, events, exportVars, sharedVars, dlVars>>

\* GET /generate-csv after fetch_sessions (lines 117-166)
CsvRespond ==
  /\ kind = "csv" /\ pc = "fetched"
  /\ IF ret.kind # "return" THEN
       /\ result' = ErrorResult(ret.exc)
       /\ UNCHANGED <<desired_max, pcols>>
     ELSE
       /\ pcols' \in PColsValues
       /\ desired_max' = ResolveDesiredMax(ret.sessions, pcols')
       /\ result' =
            IF AnyRowRaises(ret.sessions, desired_max')
            THEN ErrorResult(OtherException("AttributeError"))
            ELSE [NoResult EXCEPT !.status = HTTP_OK, !.sessions = ret.sessions,
                                  !.header = csv_headers(desired_max'),
                                  !.rows = RowsUntilRaise(ret.sessions, desired_max')]
  /\ pc' = "done"
  /\ UNCHANGED <<otherVars, rangeVars, loopVars, kind, fetchVars, streamVars, events, file_id, idx, header, rows,
                 sharedVars, dlVars>>

\* --------------------------------------------------------- fetch_stream
\* page_info.get("lastPage", 1) or 1
LatchLastPage(resp) ==
  LET v == Get(resp.lastPage, 1) IN IF v = 0 THEN 1 ELSE v

\* a latch that follows the lastPage of every response
NextLastPage_always(lp, resp) == LatchLastPage(resp)

\* if last_page is None: last_page = ... (lines 97-98); 0 stands for None
NextLastPage(lp, resp) == IF lp = 0 THEN LatchLastPage(resp) ELSE lp

\* event_gen of fetch_stream from the request of a page to its next yield:
\* the init event on the first page parsed (line 100), the progress event on a
\* later one (line 103), the error event (line 92); resp.json() raising ends it
StreamPage(resp) ==
  /\ kind = "stream" /\ pc = "streaming"
  /\ requests' = Append(requests, page)
  /\ lastResp' = [status |-> resp.status, text |-> resp.text]
  /\ upstreamN' = TrackUpstream(upstreamN, page, resp)
  /\ IF resp.status # HTTP_OK THEN
       /\ events' = Append(events, StreamErrorEvent(resp.status, resp.text))
       /\ pc' = "done"
       /\ UNCHANGED <<all_sessions, served, ret, streamVars, page_info>>
     ELSE IF ~resp.json THEN
       \* resp.json() raises inside the generator: the stream just ends
       /\ ret' = [kind |-> "raise", sessions |-> <<>>, exc |-> OtherException("JSONDecodeError")]
       /\ pc' = "done"
       /\ UNCHANGED <<all_sessions, served, events, streamVars, page_info>>
     ELSE
       /\ all_sessions' = all_sessions \o DataOf(resp)
       /\ served' = Append(served, DataOf(resp))
       /\ last_page' = NextLastPage(last_page, resp)
       /\ IF last_page = 0 THEN
            \* suspended at line 100: page_info is read again at line 101
            /\ events' = Append(events, InitStreamEvent(last_page'))
            /\ page_info' = [PageInfoOf(resp) EXCEPT !.kept = page_info.kept]
            /\ pc' = "inited"
            /\ UNCHANGED current
          ELSE
            /\ current' = Get(resp.currentPage, page)
            /\ events' = Append(events, PageProgressEvent(current', last_page'))
            /\ page_info' = IF page_info.kept THEN PageInfoOf(resp) ELSE page_info
            /\ pc' = "yielded"
       /\ UNCHANGED ret
  /\ twin' = IF page_info.kept THEN TwinStep(twin, resp) ELSE twin
  /\ UNCHANGED <<otherVars, rangeVars, kind, pcols, page, result, exportVars, sharedVars, dlVars>>

\* event_gen of fetch_stream resumed after the init event: lines 101-103
StreamProgress ==
  /\ kind = "stream" /\ pc = "inited"
  /\ current' = Get(page_info.currentPage, page)
  /\ events' = Append(events, PageProgressEvent(current', last_page))
  /\ page_info' = IF page_info.kept THEN page_info ELSE NoPageInfo
  /\ pc' = "yielded"
  /\ UNCHANGED <<otherVars, rangeVars, twin, kind, pcols, page, all_sessions, requests, served, upstreamN,
                 lastResp, ret, last_page, result, exportVars, sharedVars, dlVars>>

StreamStep == \E resp \in Responses : StreamPage(resp)
\* the same against the upstream of FewResponses
StreamStepFew == \E resp \in FewResponses : StreamPage(resp)

\* a generator whose complete branch lacks the return of line 107
StreamNext_noReturn ==
  /\ kind = "stream" /\ pc = "yielded"
  /\ events' = IF current >= last_page
               THEN Append(events, StreamCompleteEvent(all_sessions))
               ELSE events
  /\ page < MaxPage
  /\ page' = page + 1
  /\ pc' = "streaming"
  /\ UNCHANGED <<otherVars, rangeVars, loopVars, kind, pcols, all_sessions, requests, served, upstreamN, lastResp,
                 ret, streamVars, result, exportVars, sharedVars, dlVars>>

\* event_gen of fetch_stream after the progress event (lines 104-109)
StreamNext ==
  /\ kind = "stream" /\ pc = "yielded"
  /\ IF current >= last_page THEN
       /\ events' = Append(events, StreamCompleteEvent(all_sessions))
       /\ pc' = "done"
       /\ page' = page
     ELSE
       /\ page < MaxPage
       /\ page' = page + 1
       /\ pc' = "streaming"
       /\ UNCHANGED events
  /\ UNCHANGED <<otherVars, rangeVars, loopVars, kind, pcols, all_sessions, requests, served, upstreamN, lastResp,
                 ret, streamVars, result, exportVars, sharedVars, dlVars>>

\* -------------------------------------------------- generate_csv_stream
\* tempfile.NamedTemporaryFile(...).name: a fresh path for every file id
TmpName(fid) == fid

\* event_gen after fetch_sessions: the fetch progress event (lines 174-175),
\* or the error event when fetch_sessions raised (lines 231-233)
ExportFetched ==
  /\ kind = "export" /\ pc = "fetched"
  /\ IF ret.kind = "return" THEN
       /\ events' = Append(events, RowProgressEvent("fetch", 0, Len(ret.sessions)))
       /\ pc' = "prepare"
     ELSE
       /\ events' = Append(events, ExportErrorEvent(StrOfException(ret.exc)))
       /\ pc' = "done"
  \* fetch_sessions is over: the handler keeps what it returned (line 173),
  \* the locals of its loop and the record of its requests are gone
  /\ all_sessions' = ret.sessions
  /\ page' = 1 /\ requests' = <<>> /\ served' = <<>> /\ upstreamN' = 0
  /\ lastResp' = NoResp
  /\ UNCHANGED <<otherVars, rangeVars, loopVars, kind, pcols, ret, streamVars, result, exportVars, sharedVars, dlVars>>

\* lines 177-192: resolve the columns, draw the file id, register the temp
\* file in csv_files, open it and write the header
ExportRegister ==
  /\ kind = "export" /\ pc = "prepare"
  /\ pcols' \in PColsValues
  /\ desired_max' = StreamResolveDesiredMax(all_sessions, pcols')
  /\ file_id' = nextId
  /\ nextId' = nextId + 1
  /\ csv_files' = csv_files @@ (nextId :> TmpName(nextId))
  /\ disk' = disk @@ (TmpName(nextId) :> "open")
  /\ header' = stream_csv_headers(desired_max')
  /\ rows' = <<>>
  /\ idx' = 0
  /\ pc' = "writing"
  /\ UNCHANGED <<otherVars, rangeVars, loopVars, kind, fetchVars, streamVars, events, result, completed, dlVars>>

\* a report only at the multiples, with none for a final row in between
ReportsRow_multiplesOnly(i, total) == i % ROW_PROGRESS_EVERY = 0

\* idx % 10 == 0 or idx == total (line 225)
ReportsRow(i, total) == i % ROW_PROGRESS_EVERY = 0 \/ i = total

\* one iteration of the row loop (lines 194-226); a raising row leaves the
\* with block and yields the error event (lines 231-233)
ExportRow ==
  /\ kind = "export" /\ pc = "writing" /\ idx < Len(all_sessions)
  /\ LET sess == all_sessions[idx + 1]
         path == csv_files[file_id]
         total == Len(all_sessions)
     IN IF StreamRowRaises(sess, desired_max) THEN
          /\ disk' = [disk EXCEPT ![path] = "partial"]
          /\ events' = Append(events, ExportErrorEvent(StrOfException(OtherException("AttributeError"))))
          /\ pc' = "done"
          /\ UNCHANGED <<idx, rows>>
        ELSE
          /\ rows' = Append(rows, StreamWriteRow(sess, desired_max))
          /\ idx' = idx + 1
          /\ UNCHANGED disk
          /\ events' = IF ReportsRow(idx', total)
                       THEN Append(events, RowProgressEvent("generate", idx', total))
                       ELSE events
          /\ UNCHANGED pc
  /\ UNCHANGED <<otherVars, rangeVars, loopVars, kind, pcols, fetchVars, streamVars, result, file_id, desired_max, header,
                 csv_files, nextId, completed, dlVars>>

\* the row loop is over: the file is closed and the complete event yielded
\* (lines 228-230)
ExportComplete ==
  /\ kind = "export" /\ pc = "writing" /\ idx = Len(all_sessions)
  /\ disk' = [disk EXCEPT ![csv_files[file_id]] = "complete"]
  /\ events' = Append(events, ExportCompleteEvent(file_id))
  /\ completed' = completed \cup {file_id}
  /\ pc' = "done"
  /\ UNCHANGED <<otherVars, rangeVars, loopVars, kind, pcols, fetchVars, streamVars, result, exportVars, csv_files, nextId, dlVars>>

\* --------------------------------------------------------- download_csv
FileIds == 1..MaxFiles

\* lines 238-239: the membership test
DownloadCheck(id) ==
  /\ dl.pc \in {"idle", "done"}
  /\ dl' = IF id \in DOMAIN csv_files
           THEN [pc |-> "found", id |-> id, status |-> 0, file |-> ""]
           ELSE [pc |-> "done", id |-> id, status |-> HTTP_NOT_FOUND, file |-> ""]
  /\ UNCHANGED <<otherVars, rangeVars, loopVars, kind, pc, pcols, fetchVars, streamVars, events, result, exportVars,
                 sharedVars>>

\* lines 240-242: the path is read from csv_files and the file is sent
DownloadSend ==
  /\ dl.pc = "found"
  /\ dl' = [pc |-> "done", id |-> dl.id, status |-> HTTP_OK,
            file |-> disk[csv_files[dl.id]]]
  /\ UNCHANGED <<otherVars, rangeVars, loopVars, kind, pc, pcols, fetchVars, streamVars, events, result, exportVars, sharedVars>>

DownloadRequest == \E id \in FileIds : DownloadCheck(id)

\* ------------------------------------------------------------------ Next
\* a step of the handler the server is running, with any answer of the upstream
JobStep ==
  \/ FetchStep
  \/ FetchRespond
  \/ CsvRespond
  \/ StreamStep
  \/ StreamProgress
  \/ StreamNext
  \/ ExportBegin
  \/ ExportFetched
  \/ ExportRegister
  \/ ExportRow
  \/ ExportComplete

\* the server with requests that overlap: a request may arrive while another
\* is handled, and the server may go on with either; the upstream is the one
\* of FewResponses, participant_columns is among FewPCols
Next ==
  \/ StartFetch
  \/ StartCsv
  \/ StartStream
  \/ StartExport
  \/ SwitchHandler
  \/ FetchStepFew
  \/ FetchRespond
  \/ CsvRespond /\ pcols' \in FewPCols
  \/ StreamStepFew
  \/ StreamProgress
  \/ StreamNext
  \/ ExportBegin
  \/ ExportFetched
  \/ ExportRegister /\ pcols' \in FewPCols
  \/ ExportRow
  \/ ExportComplete
  \/ DownloadRequest
  \/ DownloadSend

Spec == Init /\ [][Next]_vars

\* ------------------------------------------------- one request at a time
\* the server with requests that do not overlap, with any answer of the
\* upstream; /fetch, /generate-csv and /fetch-stream are called before the
\* first export job has drawn a file id
NextAlone ==
  \/ Free /\ NoExportYet /\ StartFetch
  \/ Free /\ NoExportYet /\ StartCsv
  \/ Free /\ NoExportYet /\ StartStream
  \/ Free /\ StartExport
  \/ JobStep

SpecAlone == Init /\ [][NextAlone]_vars

\* ------------------------------------------- the two exports on given sessions
\* the sessions fetch_sessions may have returned to an export: every list of
\* up to MaxSessions records of the pool, and the longer lists of plain records
SessionPool == {S1, S2, S3, S4, SBad}
RECURSIVE SeqsUpTo(_, _)
SeqsUpTo(S, n) ==
  IF n = 0 THEN {<<>>}
  ELSE LET shorter == SeqsUpTo(S, n - 1)
       IN shorter \cup {Append(q, x) : q \in shorter, x \in S}
SessionLists ==
  (SeqsUpTo(SessionPool, MaxSessions) \ {<<>>})
  \cup {[i \in 1..n |-> IF i % 2 = 1 THEN S1 ELSE S4] : n \in 1..MaxRows}

\* GET /generate-csv or /generate-csv-stream at the return of fetch_sessions,
\* which got the sessions in one page
InitCsv ==
  /\ year = 2024 /\ month = 1
  /\ start_ms = month_start_end_epoch_ms(year, month).start
  /\ end_ms = month_start_end_epoch_ms(year, month).end
  /\ kind \in {"csv", "export"} /\ pc = "fetched" /\ pcols = PColsNone
  /\ page = 1 /\ all_sessions \in SessionLists
  /\ requests = <<1>> /\ served = <<all_sessions>>
  /\ upstreamN = 1 /\ lastResp = [status |-> HTTP_OK, text |-> "json"]
  /\ page_info = NoPageInfo /\ twin = NoTwin
  /\ ret = [kind |-> "return", sessions |-> all_sessions, exc |-> NoException]
  /\ last_page = 0 /\ current = 0 /\ result = NoResult
  /\ events = IF kind = "export" THEN <<InitExportEvent>> ELSE <<>>
  /\ file_id = 0 /\ desired_max = 0 /\ idx = 0 /\ header = <<>> /\ rows = <<>>
  /\ csv_files = <<>> /\ disk = <<>> /\ nextId = 1 /\ completed = {}
  /\ dl = Idle
  /\ others = NoOthers

NextCsv ==
  \/ CsvRespond
  \/ ExportFetched
  \/ ExportRegister
  \/ ExportRow
  \/ ExportComplete

SpecCsv == InitCsv /\ [][NextCsv]_vars

\* ------------------------------------------ the handlers on a given month
\* a request for any year and month of the sets, as the first of the server
InitMonth ==
  /\ year \in Years /\ month \in Months /\ start_ms = NoInstant /\ end_ms = NoInstant
  /\ kind = "idle" /\ pc = "idle" /\ pcols = PColsNone
  /\ page = 1 /\ all_sessions = <<>> /\ requests = <<>> /\ served = <<>>
  /\ upstreamN = 0 /\ lastResp = NoResp /\ ret = NoRet
  /\ page_info = NoPageInfo /\ twin = NoTwin
  /\ last_page = 0 /\ current = 0 /\ events = <<>> /\ result = NoResult
  /\ file_id = 0 /\ desired_max = 0 /\ idx = 0 /\ header = <<>> /\ rows = <<>>
  /\ csv_files = <<>> /\ disk = <<>> /\ nextId = 1 /\ completed = {}
  /\ dl = Idle
  /\ others = NoOthers

\* the start of a handler, which computes the month's range; a second request
\* may arrive before the first has gone on
NextMonth ==
  \/ StartFetch
  \/ StartStream

SpecMonth == InitMonth /\ [][NextMonth]_vars

\* --------------------------------- the two fetch loops, their reads on record
\* the server before its first request, in a behaviour that keeps page_info
\* and twin
InitPages ==
  /\ year = 2024 /\ month = 1 /\ start_ms = NoInstant /\ end_ms = NoInstant
  /\ kind = "idle" /\ pc = "idle" /\ pcols = PColsNone
  /\ page = 1 /\ all_sessions = <<>> /\ requests = <<>> /\ served = <<>>
  /\ upstreamN = 0 /\ lastResp = NoResp /\ ret = NoRet
  /\ page_info = [NoPageInfo EXCEPT !.kept = TRUE] /\ twin = NoTwin
  /\ last_page = 0 /\ current = 0 /\ events = <<>> /\ result = NoResult
  /\ file_id = 0 /\ desired_max = 0 /\ idx = 0 /\ header = <<>> /\ rows = <<>>
  /\ csv_files = <<>> /\ disk = <<>> /\ nextId = 1 /\ completed = {}
  /\ dl = Idle
  /\ others = NoOthers

\* GET /fetch and GET /fetch-stream, one request at a time
NextPages ==
  \/ Free /\ StartFetch
  \/ FetchStep
  \/ FetchRespond
  \/ Free /\ StartStream
  \/ StreamStep
  \/ StreamProgress
  \/ StreamNext

SpecPages == InitPages /\ [][NextPages]_vars

\* ================================================================ claims
RECURSIVE Concat(_)
Concat(seqs) == IF seqs = <<>> THEN <<>> ELSE Head(seqs) \o Concat(Tail(seqs))

Last(seq) == seq[Len(seq)]

\* the frame runs fetch_sessions (GET /fetch, /generate-csv, /generate-csv-stream)
CallsFetchSessions == kind \in {"fetch", "csv", "export"}
\* fetch_sessions has returned or raised
FetchEnded == CallsFetchSessions /\ pc # "fetching"

\* C1: against an upstream that answers every page p of 1..N with status 200,
\* currentPage = p and lastPage = N, fetch_sessions requests the pages 1, 2, ...
\* in increasing order, each once, and none beyond N; it ends after page N, and
\* when the pages hold at least one record it returns the concatenation of the
\* pages' data in page order.
C1_WellBehavedFetch ==
  (CallsFetchSessions /\ upstreamN >= 1) =>
    /\ requests = [i \in 1..Len(requests) |-> i]
    /\ Len(requests) <= upstreamN
    /\ Len(served) = Len(requests)
    /\ (pc = "fetching") = (Len(requests) < upstreamN)
    /\ (FetchEnded /\ Concat(served) # <<>>) =>
         /\ ret.kind = "return"
         /\ ret.sessions = Concat(served)
    /\ (kind = "fetch" /\ pc = "done" /\ Concat(served) # <<>>) =>
         /\ result.status = HTTP_OK
         /\ result.sessions = Concat(served)

\* three pages, the first two with different records, fetched and returned
C1_Witness ==
  /\ kind = "fetch" /\ pc = "done" /\ upstreamN = 3
  /\ requests = <<1, 2, 3>>
  /\ served[1] # <<>> /\ served[2] # <<>> /\ served[1] # served[2]
  /\ result.sessions = served[1] \o served[2] \o served[3]

\* C2: a response with a status other than 200 ends the fetch at that page: the
\* loop has ended (no later page is requested), fetch_sessions raises an error
\* with exactly that response's status and body and returns no records, GET
\* /fetch answers with that status and body and no sessions, and in
\* fetch_stream the error event with that status and body is the last event
\* and no complete event is yielded.
C2_Non200Aborts ==
  (lastResp.status # 0 /\ lastResp.status # HTTP_OK) =>
    /\ Last(requests) = page
    /\ pc \in {"fetched", "done"}
    /\ CallsFetchSessions =>
         /\ ret.kind = "raise"
         /\ ret.sessions = <<>>
         /\ ret.exc.type = "HTTPException"
         /\ ret.exc.status = lastResp.status
         /\ ret.exc.detail = lastResp.text
    /\ (kind \in {"fetch", "csv"} /\ pc = "done") =>
         /\ result.status = lastResp.status
         /\ result.detail = lastResp.text
         /\ result.sessions = <<>>
         /\ result.rows = <<>>
    /\ kind = "stream" =>
         /\ pc = "done"
         /\ Last(events) = StreamErrorEvent(lastResp.status, lastResp.text)
         /\ \A i \in 1..Len(events) : events[i].type # "complete"
         /\ \A i \in 1..Len(events) : events[i].sessions = <<>>

\* page 1 delivered records, page 2 answered 404: GET /fetch fails with it
C2_Witness ==
  /\ kind = "fetch" /\ pc = "done"
  /\ requests = <<1, 2>> /\ all_sessions # <<>>
  /\ lastResp.status = HTTP_NOT_FOUND /\ lastResp.text = "denied"
  /\ result.status = HTTP_NOT_FOUND /\ result.detail = "denied"

\* the fetch loop ended normally (its last response was a 200 JSON page)
LoopEnded == FetchEnded /\ lastResp.status = HTTP_OK /\ lastResp.text = "json"

\* C3: when the loop of fetch_sessions ends with an empty accumulator,
\* fetch_sessions raises the 404 "No sessions found" error; it never returns an
\* empty sequence, and neither export (generate_csv, generate_csv_stream)
\* resolves columns or writes a header for an empty session list.
C3_NoDataIsNotFound ==
  /\ (LoopEnded /\ all_sessions = <<>>) =>
       /\ ret.kind = "raise"
       /\ ret.exc = HTTPException(HTTP_NOT_FOUND, NO_SESSIONS_DETAIL)
  /\ (CallsFetchSessions /\ ret.kind = "return") => ret.sessions # <<>>
  /\ (kind = "fetch" /\ result.status = HTTP_OK) => result.sessions # <<>>
  /\ (kind = "export" /\ pc \in {"prepare", "writing"}) => all_sessions # <<>>
  /\ (kind = "export" /\ header # <<>>) => all_sessions # <<>>
  /\ (kind = "csv" /\ result.header # <<>>) => result.sessions # <<>>

\* GET /generate-csv over two pages without records answers 404, no table
C3_Witness ==
  /\ kind = "csv" /\ pc = "done" /\ Len(requests) = 2 /\ lastResp.status = HTTP_OK
  /\ all_sessions = <<>>
  /\ result.status = HTTP_NOT_FOUND /\ result.detail = NO_SESSIONS_DETAIL
  /\ result.header = <<>>

\* ------------------------------------------------------------ downloads
\* the download request has been answered with the file
DownloadSucceeded == dl.pc = "done" /\ dl.status = HTTP_OK

\* C4: once download_csv has succeeded for an id, csv_files holds no entry for
\* that id (so that a later request for it is answered 404).
C4_EntryRemovedAfterDownload ==
  DownloadSucceeded => dl.id \notin DOMAIN csv_files

\* C5: download_csv succeeds for an id only when the export job of that id has
\* completed: all rows written, the file closed and the complete event yielded.
C5_DownloadOnlyAfterComplete ==
  DownloadSucceeded => (dl.id \in completed /\ dl.file = "complete")

\* the generator of an export job or of fetch_stream has ended
JobEnded == kind \in {"stream", "export"} /\ pc = "done"
Terminal(e) == e.type \in {"complete", "error"}

\* C6: an export job that ended on an exception, raised in its fetch phase or
\* while writing rows, has published the error event with the exception's
\* message, and csv_files then refers to no partially written file.
C6_ErrorLeavesNoFile ==
  (kind = "export" /\ pc = "done" /\ Last(events).type # "complete") =>
    /\ Last(events).type = "error"
    /\ Last(events).msg = IF ret.kind = "raise"
                          THEN StrOfException(ret.exc)
                          ELSE StrOfException(OtherException("AttributeError"))
    /\ \A id \in DOMAIN csv_files : disk[csv_files[id]] # "partial"

\* C7: in the events of a fetch_stream or export job only the last one can be
\* a complete or error event, and once it is yielded the generator has ended:
\* nothing is published or changed for the job afterwards.
C7_OneTerminalEvent ==
  (kind \in {"stream", "export"}) =>
    \A i \in 1..Len(events) :
      Terminal(events[i]) => (i = Len(events) /\ pc = "done")

\* an export job that failed while writing rows: init, fetch progress, error
C7_Witness ==
  /\ kind = "export" /\ pc = "done" /\ Len(events) = 3
  /\ events[2].type = "progress" /\ events[3].type = "error"
  /\ rows # <<>>

\* C8: a fetch_stream or export job that has ended has published a complete or
\* an error event as its last event.
C8_EndsWithTerminalEvent ==
  JobEnded => (events # <<>> /\ Terminal(Last(events)))

\* the progress events of the job, in order
RECURSIVE ProgressEvents(_)
ProgressEvents(evs) ==
  IF evs = <<>> THEN <<>>
  ELSE (IF Head(evs).type = "progress" THEN <<Head(evs)>> ELSE <<>>)
       \o ProgressEvents(Tail(evs))
NonDecreasing(evs) ==
  \A i \in 1..Len(evs) : \A j \in i..Len(evs) : evs[i].a <= evs[j].a
\* a progress event that reports the full total is the last event of a
\* generator suspended at that yield, or directly followed by complete
FullOnlyAtCompletion ==
  \A i \in 1..Len(events) :
    (events[i].type = "progress" /\ events[i].a >= events[i].b) =>
      \/ (i = Len(events) /\ pc # "done")
      \/ (i < Len(events) /\ events[i + 1].type = "complete")

\* C9: the progress values a job reports never decrease, whatever the upstream
\* returns, and the full total is reported only when the job then completes.
C9_ProgressMonotone ==
  (kind \in {"stream", "export"}) =>
    (NonDecreasing(ProgressEvents(events)) /\ FullOnlyAtCompletion)

\* C10: every access to csv_files is made under one lock held for the whole
\* operation: while download_csv is between its membership test (line 238)
\* and its read (line 240), no other handler writes csv_files.
C10_LookupExcludesWrites ==
  [][dl.pc = "found" => csv_files' = csv_files]_vars

\* ------------------------------------------------------ the exported table
\* participant_columns has been resolved: generate_csv_stream is past line 180,
\* generate_csv has run
ColumnsResolved ==
  \/ kind = "export" /\ file_id # 0
  \/ kind = "csv" /\ pc = "done" /\ ret.kind = "return"
\* a table exists: the file of the streaming export, the answer of generate_csv
HasTable ==
  \/ kind = "export" /\ file_id # 0
  \/ kind = "csv" /\ pc = "done" /\ result.status = HTTP_OK
TableHeader == IF kind = "csv" THEN result.header ELSE header
TableRows == IF kind = "csv" THEN result.rows ELSE rows
ExportCompleted == kind = "export" /\ pc = "done" /\ Last(events).type = "complete"
ParticipantCount(sess) == IF sess.hasParticipants THEN Len(sess.participants) ELSE 0
\* the position of column participant{i}_<field> number f (1..4) in the header
Slot(i, f) == 6 + 4 * (i - 1) + f

\* C11: the number of participant groups is the largest participant count of the
\* sessions when participant_columns is unset or zero, else the supplied value
\* with a negative one clamped to zero; it is never negative, and the header has
\* exactly 6 + 4 * count columns: the six fixed ones, then participant{i}_id,
\* _name, _first_start, _last_end for i = 1..count in order.
C11_ColumnCount ==
  /\ ColumnsResolved =>
       /\ desired_max >= 0
       /\ IF ~pcols.given \/ pcols.value = 0
          THEN /\ \A r \in 1..Len(all_sessions) : ParticipantCount(all_sessions[r]) <= desired_max
               /\ \E r \in 1..Len(all_sessions) : ParticipantCount(all_sessions[r]) = desired_max
          ELSE IF pcols.value < 0 THEN desired_max = 0
          ELSE desired_max = pcols.value
  /\ HasTable =>
       /\ Len(TableHeader) = 6 + 4 * desired_max
       /\ SubSeq(TableHeader, 1, 6) =
            <<Col(0, "session_id"), Col(0, "room_id"), Col(0, "session_start_time"),
              Col(0, "session_end_time"), Col(0, "status"), Col(0, "number_of_participants")>>
       /\ \A i \in 1..desired_max :
            SubSeq(TableHeader, Slot(i, 1), Slot(i, 4)) =
              <<Col(i, "id"), Col(i, "name"), Col(i, "first_start"), Col(i, "last_end")>>
\* generate_csv has resolved a negative participant_columns to a header of the
\* six fixed columns for sessions that have participants
C11_Witness ==
  /\ kind = "csv" /\ HasTable /\ pcols.given /\ pcols.value < 0
  /\ Len(TableHeader) = 6
  /\ \E r \in 1..Len(all_sessions) : ParticipantCount(all_sessions[r]) >= 2

\* C12: when the resolved count k is below a session's participant count n, the
\* row carries the first k participants, in their order, in slots 1..k, the
\* others are dropped without an error, and number_of_participants is still n.
C12_Truncation ==
  HasTable =>
    \A r \in 1..Len(TableRows) :
      LET sess == all_sessions[r]
          n == ParticipantCount(sess)
          k == desired_max
          row == TableRows[r]
      IN k < n =>
           /\ Len(row) = 6 + 4 * k
           /\ row[6] = Str(n)
           /\ \A i \in 1..k :
                /\ row[Slot(i, 1)] = GetText(sess.participants[i].participantId)
                /\ row[Slot(i, 2)] = GetText(sess.participants[i].name)
\* the streaming export has completed a table of one participant group that
\* holds a session of three participants
C12_Witness ==
  /\ ExportCompleted /\ desired_max = 1
  /\ \E r \in 1..Len(rows) : ParticipantCount(all_sessions[r]) = 3 /\ rows[r][6] = "3"

\* the row dictionary the export in flight builds for a session
RowDictOf(sess) ==
  IF kind = "csv" THEN RowDict(sess, desired_max) ELSE StreamRowDict(sess, desired_max)

\* C13: the export writes one row per input session, in input order; every row
\* has a value for every header column and for no other; every slot i with
\* participant count < i <= resolved count holds four empty strings; every
\* source field that is missing is written as the empty string.
C13_RowShape ==
  HasTable =>
    /\ Len(TableRows) <= Len(all_sessions)
    /\ (kind = "csv" \/ ExportCompleted) => Len(TableRows) = Len(all_sessions)
    /\ kind = "export" => Len(TableRows) = idx
    /\ \A r \in 1..Len(TableRows) :
         LET sess == all_sessions[r]
             n == ParticipantCount(sess)
             row == TableRows[r]
         IN /\ Len(row) = Len(TableHeader)
            /\ DOMAIN RowDictOf(sess) = {TableHeader[k] : k \in 1..Len(TableHeader)}
            /\ row[1] = (IF sess.id = NoText THEN "" ELSE sess.id)
            /\ row[2] = (IF sess.roomId = NoText THEN "" ELSE sess.roomId)
            /\ sess.start = NoKey => row[3] = ""
            /\ sess.end = NoKey => row[4] = ""
            /\ row[5] = (IF sess.status = NoText THEN "" ELSE sess.status)
            /\ row[6] = Str(n)
            /\ \A i \in 1..desired_max :
                 /\ i > n => \A f \in 1..4 : row[Slot(i, f)] = ""
                 /\ i <= n =>
                      /\ sess.participants[i].participantId = NoText => row[Slot(i, 1)] = ""
                      /\ sess.participants[i].name = NoText => row[Slot(i, 2)] = ""
\* the streaming export has completed a table of three participant groups with
\* a row of a session that has none of the optional keys after a row of another
C13_Witness ==
  /\ ExportCompleted /\ desired_max = 3 /\ Len(rows) = 2
  /\ all_sessions[2] = S4 /\ all_sessions[1] = S3
  /\ rows[2] = <<"", "", "", "", "", "0", "", "", "", "", "", "", "", "", "", "", "", "">>
  /\ rows[1][1] = "s4"

\* the start values, and the end values, that the entries of a timelog hold
PresentStarts(timelog) == {timelog[k].start : k \in 1..Len(timelog)} \ {NoKey}
PresentEnds(timelog) == {timelog[k].end : k \in 1..Len(timelog)} \ {NoKey}
\* C14: for every exported participant, first_start is the minimum of all start
\* values present in the timelog and last_end the maximum of all end values
\* present, a value of 0 included; each is the empty string exactly when no
\* timelog entry has that field.
C14_TimelogExtremes ==
  HasTable =>
    \A r \in 1..Len(TableRows) :
      LET sess == all_sessions[r]
          row == TableRows[r]
      IN \A i \in 1..desired_max :
           i <= ParticipantCount(sess) =>
             LET timelog == sess.participants[i].timelog
                 starts == PresentStarts(timelog)
                 ends == PresentEnds(timelog)
             IN /\ row[Slot(i, 3)] =
                     (IF starts = {} THEN ""
                      ELSE Str(CHOOSE m \in starts : \A x \in starts : m <= x))
                /\ row[Slot(i, 4)] =
                     (IF ends = {} THEN ""
                      ELSE Str(CHOOSE m \in ends : \A x \in ends : x <= m))

\* ----------------------------------------------------------- the month range
\* the handler in flight has called month_start_end_epoch_ms
RangeCalled == kind \in {"fetch", "stream"}
\* days from 1970-01-01 to a day of the proleptic Gregorian calendar, counted
\* in 400-year eras of 146097 days that start on 1 March
DaysFromCivil(y, m, d) ==
  LET yy == IF m <= 2 THEN y - 1 ELSE y
      era == yy \div 400
      yoe == yy - era * 400
      doy == ((153 * (IF m > 2 THEN m - 3 ELSE m + 9) + 2) \div 5) + d - 1
      doe == yoe * 365 + (yoe \div 4) - (yoe \div 100) + doy
  IN era * 146097 + doe - 719468
\* an instant moved forward by less than a day
LaterBy(inst, delta) ==
  IF inst.ms + delta >= 86400000
  THEN [day |-> inst.day + 1, ms |-> inst.ms + delta - 86400000]
  ELSE [day |-> inst.day, ms |-> inst.ms + delta]
Earlier(a, b) == a.day < b.day \/ (a.day = b.day /\ a.ms < b.ms)
FollowingYear == IF month = 12 THEN year + 1 ELSE year
FollowingMonth == IF month = 12 THEN 1 ELSE month + 1
\* the part of C15 that is about the values returned
RangeIsTheMonth ==
  /\ start_ms = [day |-> DaysFromCivil(year, month, 1), ms |-> 0]
  /\ LaterBy(end_ms, 1000) = [day |-> DaysFromCivil(FollowingYear, FollowingMonth, 1), ms |-> 0]
  /\ ~month_start_end_epoch_ms(FollowingYear, FollowingMonth).raised =>
       LaterBy(end_ms, 1000) = month_start_end_epoch_ms(FollowingYear, FollowingMonth).start
  /\ Earlier(start_ms, end_ms)

\* C15: for every year and every month in 1..12, month_start_end_epoch_ms
\* returns a start_ms that is the first instant of that UTC month and an end_ms
\* exactly 1000 ms before the start_ms of the following month (December of Y is
\* followed by January of Y + 1), so that start_ms < end_ms and the ranges of
\* consecutive months do not overlap.
C15_MonthRange ==
  RangeCalled => (ret.kind # "raise" /\ RangeIsTheMonth)

\* ------------------------------------------------------------ the page loop
\* the last response was a 200 JSON page, whose pageInfo is on record
PageParsed == page_info.seen /\ lastResp.status = HTTP_OK /\ lastResp.text = "json"
\* the fetch loop in flight has decided, after that page, to stop or to go on
\* (fetch_stream decides after the progress event of the page)
LoopDecided ==
  /\ PageParsed
  /\ \/ kind = "fetch"
     \/ kind = "stream" /\ pc \in {"streaming", "done"}
LoopStopped == IF kind = "stream" THEN pc = "done" ELSE pc # "fetching"
\* a value of the pageInfo, a missing one taken as d
Taken(v, d) == IF v = NoKey THEN d ELSE v

\* C16: after each successful page response the fetch stops iff currentPage >=
\* lastPage, a currentPage or lastPage missing from the response taken as 1;
\* otherwise it increments the page counter and requests the next page.
C16_StopsAtLastPage ==
  LoopDecided =>
    /\ LoopStopped = (Taken(page_info.currentPage, 1) >= Taken(page_info.lastPage, 1))
    /\ ~LoopStopped => page = Last(requests) + 1

\* the lastPage fetch_stream took from its first successful response
FirstLastPage == IF kind = "stream" /\ events # <<>> THEN events[1].b ELSE 0
\* C16 amended: fetch_sessions stops iff currentPage >= lastPage of the response,
\* a missing one taken as the number of the page just requested; fetch_stream
\* stops iff currentPage, a missing one taken as the page just requested, >= the
\* lastPage of its first successful response, a missing or zero one taken as 1;
\* otherwise the loop increments the page counter and requests the next page.
C16_StopsAtLastPageAsRead ==
  /\ LoopDecided =>
       LET p == Last(requests)
       IN /\ kind = "fetch" =>
               LoopStopped = (Taken(page_info.currentPage, p) >= Taken(page_info.lastPage, p))
          /\ kind = "stream" =>
               LoopStopped = (Taken(page_info.currentPage, p) >= FirstLastPage)
          /\ ~LoopStopped => page = p + 1
          /\ LoopStopped => page = p
  /\ (kind = "stream" /\ PageParsed /\ Len(requests) = 1) =>
       FirstLastPage = (IF page_info.lastPage \in {NoKey, 0} THEN 1 ELSE page_info.lastPage)
  /\ (kind \in {"fetch", "stream"} /\ pc \in {"fetching", "streaming"}) =>
       page = Len(requests) + 1
\* fetch_sessions has stopped after page 2, whose response gave lastPage 2 and no
\* currentPage
C16_Witness ==
  /\ kind = "fetch" /\ LoopDecided /\ LoopStopped
  /\ requests = <<1, 2>>
  /\ page_info.currentPage = NoKey /\ page_info.lastPage = 2

\* the init and progress events of the stream, in order
PageReports == SelectSeq(events, LAMBDA e : e.type \in {"init", "progress"})

\* C17: fetch_stream takes lastPage from its first successful response and
\* announces it once, in an init event that precedes every progress event; it
\* yields one progress event (currentPage, that lastPage) per successfully
\* processed page, after the page's records were appended (the one of the first
\* page is due while the generator is suspended at the init event); the total
\* it reports never changes, whatever lastPage later responses carry.
C17_LatchedLastPage ==
  kind = "stream" =>
    /\ all_sessions = Concat(served)
    /\ SubSeq(events, 1, Len(PageReports)) = PageReports
    /\ served = <<>> => PageReports = <<>>
    /\ pc = "inited" => (Len(served) = 1 /\ Last(events).type = "init" /\ current = 0)
    /\ served # <<>> =>
         /\ Len(PageReports) = (IF pc = "inited" THEN 1 ELSE 1 + Len(served))
         /\ PageReports[1].type = "init"
         /\ PageReports[1].b = last_page
         /\ \A j \in 2..Len(PageReports) :
              /\ PageReports[j].type = "progress"
              /\ PageReports[j].b = PageReports[1].b
         /\ (PageParsed /\ pc # "inited") =>
              PageReports[Len(PageReports)].a =
                (IF page_info.currentPage = NoKey THEN Last(requests)
                 ELSE page_info.currentPage)
    /\ (PageParsed /\ Len(requests) = 1) =>
         PageReports[1].b =
           (IF page_info.lastPage \in {NoKey, 0} THEN 1 ELSE page_info.lastPage)
\* the stream has reported its second page with the lastPage 2 of the first
\* response although the second response gave lastPage 3
C17_Witness ==
  /\ kind = "stream" /\ pc = "yielded" /\ Len(served) = 2 /\ PageParsed
  /\ page_info.lastPage = 3 /\ last_page = 2
  /\ Last(events) = PageProgressEvent(2, 2)
  /\ Len(PageReports) = 3

\* ------------------------------------------------------------- row progress
\* the row progress events of the export, in order
RowReports == SelectSeq(events, LAMBDA e : e.type = "progress" /\ e.step = "generate")
\* the places in events of the row progress events and of the complete event
RowReportPlaces == {j \in 1..Len(events) : events[j].type = "progress" /\ events[j].step = "generate"}
CompletePlaces == {j \in 1..Len(events) : events[j].type = "complete"}

\* C18: during an export over total rows, a row progress event is yielded after
\* row idx is written exactly when idx is a multiple of 10 or idx = total: at
\* most 10 rows lie between consecutive reports, the final row is reported
\* exactly once, and every report comes after its row was written and before
\* the complete event.
C18_RowProgress ==
  (kind = "export" /\ file_id # 0) =>
    LET total == Len(all_sessions)
        written == Len(rows)
    IN /\ {RowReports[j].a : j \in 1..Len(RowReports)} =
            {i \in 1..written : i % 10 = 0 \/ i = total}
       /\ \A j \in 1..Len(RowReports) :
            /\ RowReports[j].b = total
            /\ RowReports[j].a <= written
            /\ RowReports[j].a - (IF j = 1 THEN 0 ELSE RowReports[j - 1].a) \in 1..10
       /\ written - (IF RowReports = <<>> THEN 0 ELSE Last(RowReports).a) < 10
       /\ \A j \in RowReportPlaces : \A c \in CompletePlaces : j < c
       /\ ExportCompleted =>
            Cardinality({j \in 1..Len(RowReports) : RowReports[j].a = total}) = 1
\* an export of 21 rows has completed after the reports of rows 10, 20 and 21
C18_Witness ==
  /\ ExportCompleted /\ Len(rows) = 21
  /\ RowReports = <<RowProgressEvent("generate", 10, 21), RowProgressEvent("generate", 20, 21),
                    RowProgressEvent("generate", 21, 21)>>

\* ------------------------------------------- fetch_stream and fetch_sessions
\* C19: for every upstream behaviour fetch_stream and fetch_sessions agree: they
\* make the same sequence of page requests, and the stream ends with a complete
\* event carrying S exactly when fetch_sessions returns S, and with an error
\* otherwise. twin is fetch_sessions on the answers the stream has received.
C19_StreamAgreesWithFetch ==
  kind = "stream" =>
    /\ twin.n = Len(requests)
    /\ pc = "streaming" => twin.ret.kind = "none"
    /\ pc = "done" =>
         /\ twin.ret.kind # "none"
         /\ events # <<>>
         /\ IF twin.ret.kind = "return"
            THEN Last(events) = StreamCompleteEvent(twin.ret.sessions)
            ELSE Last(events).type = "error"

\* ----------------------------------------------------------- the two exports
\* what generate_csv makes of the sessions and the participant_columns of the
\* streaming export in flight
CsvDesiredMax == ResolveDesiredMax(all_sessions, pcols)
CsvRaises == AnyRowRaises(all_sessions, CsvDesiredMax)
StreamFailedInRows == kind = "export" /\ file_id # 0 /\ pc = "done" /\ Last(events).type = "error"

\* C20: for every session list and participant_columns value, generate_csv and
\* generate_csv_stream write the same header and the same rows in the same
\* order: the progress reports of the streaming export leave the table as it is.
C20_SameTable ==
  (kind = "export" /\ file_id # 0) =>
    /\ header = csv_headers(CsvDesiredMax)
    /\ rows = SubSeq(RowsUntilRaise(all_sessions, CsvDesiredMax), 1, Len(rows))
    /\ ExportCompleted =>
         /\ ~CsvRaises
         /\ Len(rows) = Len(all_sessions)
         /\ rows = [r \in 1..Len(all_sessions) |-> WriteRow(all_sessions[r], CsvDesiredMax)]
    /\ StreamFailedInRows = (pc = "done" /\ CsvRaises)
\* the streaming export has completed a table of three sessions on which
\* one participant group was asked for, of a session of three participants
\* with a start of 0 among them
C20_Witness ==
  /\ ExportCompleted /\ pcols = PCols(1)
  /\ \E r \in 1..Len(rows) : all_sessions[r] = S3 /\ rows[r] = WriteRow(S3, 1)
  /\ Len(rows) = 2 /\ Len(events) >= 4

====
